---- MODULE Spec2Model ----
(***************************************************************************)
(* The LSTM language-model wrapper of openspeech                           *)
(* (openspeech/models/lstm_lm/model.py): build_model, forward,             *)
(* training_step, validation_step, test_step and collect_outputs, driven   *)
(* by an experiment driver that fetches batches, calls the wrapper and     *)
(* applies gradient updates.                                               *)
(*                                                                         *)
(* The decoder (LSTMDecoder), the criterion, the two error-rate metrics    *)
(* and the logging hook are collaborators whose code is not part of the    *)
(* two source files; they are modelled from the written specification      *)
(* (sections 4.2 and 6) by small integer stand-ins.                        *)
(***************************************************************************)
EXTENDS Integers, Sequences, FiniteSets, TLC

VARIABLES
    configs,                \* resolved configuration object (read-only)
    teacher_forcing_ratio,  \* self.teacher_forcing_ratio
    lm,                     \* self.lm: 0 = attribute not set, n = n-th decoder built
    built,                  \* build_model has been called on the wrapper
    params,                 \* decoder parameters (a version number)
    batch,                  \* the batch the driver currently holds
    ret,                    \* outcome of the last wrapper call on that batch
    lmcall,                 \* decoder invocations made by the last call
    hook,                   \* log_steps invocations made by the last call
    called,                 \* stage of every step that returned, in order
    logged                  \* stage tag of every log_steps invocation, in order

vars == <<configs, teacher_forcing_ratio, lm, built, params, batch, ret, lmcall, hook,
          called, logged>>

----------------------------------------------------------------------------
(* Bounds of the model *)

\* ratios are k / RatioDen for k in 0..RatioDen
RatioDen == 2
\* number of steps that may return in one behaviour
MaxCalls == 3
\* number of distinct decoder parameter versions
NumParams == 2
\* number of times build_model may be called
MaxBuilds == 1

(* Configuration values *)

\* self.num_classes
num_classes == 2
\* self.configs.model.max_length
max_length == 2
\* self.vocab.sos_id
sos_id == 0

Tokens == 0 .. (num_classes - 1)
Ratios == 0 .. RatioDen

RECURSIVE SeqSum(_)
SeqSum(s) == IF s = <<>> THEN 0 ELSE Head(s) + SeqSum(Tail(s))

----------------------------------------------------------------------------
(* Batches: (inputs, targets), one row each.  A batch of the declared     *)
(* shape has max_length input ids, the first of them the start-of-sequence *)
(* id, and max_length + 1 target ids; the driver may also hand over a      *)
(* batch whose rows are one id short.                                      *)

InputRows ==
    {r \in [1 .. max_length -> Tokens] : r[1] = sos_id}
        \cup [1 .. (max_length - 1) -> {sos_id}]
TargetRows == [1 .. (max_length + 1) -> Tokens] \cup [1 .. max_length -> {sos_id}]
Batches == [inputs : InputRows, targets : TargetRows]

DeclaredShape(b) ==
    /\ Len(b.inputs) = max_length
    /\ Len(b.targets) = max_length + 1

----------------------------------------------------------------------------
(* Collaborators: decoder, criterion, metrics *)

\* index of the largest score, the first one on ties (logits.max(-1)[1])
ArgMax(v) ==
    CHOOSE c \in DOMAIN v :
        \A d \in DOMAIN v : v[d] < v[c] \/ (v[d] = v[c] /\ c <= d)

MaxOf(v) == v[ArgMax(v)]

\* recurrent cell: next hidden state from parameters, hidden state, input token
Cell(p, h, x) == (2 * h + x + p + 1) % 5

\* class scores read out of a hidden state
StepLogits(p, h) == [c \in Tokens |-> ((h + 1) * (c + 2) + p) % 4]

\* one draw of the decoder's random policy: forcing is used when the draw
\* (coin / RatioDen, in [0, 1)) is below the ratio
UseTeacherForcing(ratio, coin) == coin < ratio

\* Decode loop over steps t = 1 .. max_length.  x is the token fed at step t.
RECURSIVE DecodeLoop(_, _, _, _, _, _, _, _)
DecodeLoop(p, teacher, forced, t, h, x, logits, fed) ==
    IF t > max_length
    THEN [logits |-> logits, fed |-> fed]
    ELSE LET h2 == Cell(p, h, x)
             lg == StepLogits(p, h2)
             nx == IF forced /\ t < Len(teacher) THEN teacher[t + 1] ELSE ArgMax(lg)
         IN  DecodeLoop(p, teacher, forced, t + 1, h2, nx,
                        Append(logits, lg), Append(fed, x))

\* LSTMDecoder.forward(teacher, teacher_forcing_ratio)
Decoder(p, teacher, ratio, coin) ==
    IF Len(teacher) # max_length
    THEN [kind |-> "raise", error |-> "ShapeMismatch"]
    ELSE LET forced == UseTeacherForcing(ratio, coin)
             out == DecodeLoop(p, teacher, forced, 1, 0, sos_id, <<>>, <<>>)
         IN  [kind |-> "ok", forced |-> forced, logits |-> out.logits,
              fed |-> out.fed]

\* predictions: argmax over the class dimension at every step
Predictions(logits) == [t \in 1 .. Len(logits) |-> ArgMax(logits[t])]

\* criterion(logits, shifted targets): summed margin between the best score
\* and the score of the reference class
CriterionDefined(logits, tgt) == Len(logits) = Len(tgt)

Criterion(logits, tgt) ==
    SeqSum([t \in 1 .. Len(logits) |-> MaxOf(logits[t]) - logits[t][tgt[t]]])

MinOf(S) == CHOOSE m \in S : \A n \in S : m <= n

\* token-level distance: insertions, deletions and substitutions
RECURSIVE EditDistance(_, _)
EditDistance(a, b) ==
    IF a = <<>> THEN Len(b)
    ELSE IF b = <<>> THEN Len(a)
    ELSE MinOf({EditDistance(Tail(a), Tail(b)) + (IF Head(a) = Head(b) THEN 0 ELSE 1),
                EditDistance(Tail(a), b) + 1,
                EditDistance(a, Tail(b)) + 1})

\* the characters of a token: token k is spelled with k + 1 characters
RECURSIVE Spell(_)
Spell(s) ==
    IF s = <<>> THEN <<>>
    ELSE [i \in 1 .. (Head(s) + 1) |-> Head(s)] \o Spell(Tail(s))

\* character-level distance: positions that differ, plus the excess length
CharDistance(a, b) ==
    LET n == IF Len(a) <= Len(b) THEN Len(a) ELSE Len(b)
    IN  Cardinality({i \in 1 .. n : a[i] # b[i]}) + (Len(a) - n) + (Len(b) - n)

\* self.wer_metric(targets, y_hats): distance over whole tokens
wer_metric(targets, y_hats) == EditDistance(targets, y_hats)

\* self.cer_metric(targets, y_hats): distance over characters
cer_metric(targets, y_hats) == CharDistance(Spell(targets), Spell(y_hats))

----------------------------------------------------------------------------
(* The wrapper: LSTMLanguageModel *)

\* The wrapper object as the handlers see it.
Self == [configs |-> configs, teacher_forcing_ratio |-> teacher_forcing_ratio,
         lm |-> lm, params |-> params]

\* __init__: copies the configured ratio out of configs; self.lm is not set
NewModel(cfg) ==
    [configs |-> cfg, teacher_forcing_ratio |-> cfg.model.teacher_forcing_ratio,
     lm |-> 0, params |-> 0]

\* build_model storing the decoder under another attribute than self.lm
build_model_other_attribute(self) == [self EXCEPT !.params = 0]

\* build_model: self.lm = LSTMDecoder(...), a new decoder with fresh parameters
build_model(self) == [self EXCEPT !.lm = self.lm + 1, !.params = 0]

\* a call that raises: nothing is returned, the wrapper is as it was
Raised(op, self, error, calls) ==
    [self |-> self, ret |-> [op |-> op, kind |-> "raise", error |-> error],
     lmcall |-> calls, hook |-> <<>>]

\* self.lm(teacher, teacher_forcing_ratio=ratio): the record of one decoder call
LmCall(self, teacher, ratio, coin) ==
    [ratio |-> ratio, teacher |-> teacher, params |-> self.params,
     out |-> Decoder(self.params, teacher, ratio, coin)]

\* f"{stage}_perplexity"
PerplexityKey(stage) ==
    CASE stage = "train" -> "train_perplexity"
      [] stage = "valid" -> "valid_perplexity"
      [] stage = "test" -> "test_perplexity"

\* collect_outputs taking the loss over targets[:, :-1], the leading columns
collect_outputs_leading(op, self, stage, logits, targets, calls) ==
    LET shifted == IF targets = <<>> THEN <<>> ELSE SubSeq(targets, 1, Len(targets) - 1)
    IN  IF ~CriterionDefined(logits, shifted)
        THEN Raised(op, self, "ShapeMismatch", calls)
        ELSE LET loss == Criterion(logits, shifted)
                 y_hats == Predictions(logits)
                 wer == wer_metric(targets, y_hats)
                 cer == cer_metric(targets, y_hats)
                 progress_bar_dict ==
                     [k \in {PerplexityKey(stage), "wer", "cer"} |->
                         IF k = "wer" THEN wer ELSE IF k = "cer" THEN cer ELSE loss]
             IN  [self |-> self,
                  ret |-> [op |-> op, kind |-> "return",
                           value |-> [loss |-> loss,
                                      progress_bar |-> progress_bar_dict,
                                      log |-> progress_bar_dict]],
                  lmcall |-> calls,
                  hook |-> <<[stage |-> stage, wer |-> wer, cer |-> cer,
                              loss |-> loss]>>]

\* collect_outputs returning the record without its loss entry
collect_outputs_no_loss(op, self, stage, logits, targets, calls) ==
    LET shifted == IF targets = <<>> THEN <<>> ELSE Tail(targets)
    IN  IF ~CriterionDefined(logits, shifted)
        THEN Raised(op, self, "ShapeMismatch", calls)
        ELSE LET loss == Criterion(logits, shifted)
                 y_hats == Predictions(logits)
                 wer == wer_metric(targets, y_hats)
                 cer == cer_metric(targets, y_hats)
                 progress_bar_dict ==
                     [k \in {PerplexityKey(stage), "wer", "cer"} |->
                         IF k = "wer" THEN wer ELSE IF k = "cer" THEN cer ELSE loss]
             IN  [self |-> self,
                  ret |-> [op |-> op, kind |-> "return",
                           value |-> [progress_bar |-> progress_bar_dict,
                                      log |-> progress_bar_dict]],
                  lmcall |-> calls,
                  hook |-> <<[stage |-> stage, wer |-> wer, cer |-> cer,
                              loss |-> loss]>>]

\* collect_outputs scoring the error rates against the shifted targets
collect_outputs_shifted_metrics(op, self, stage, logits, targets, calls) ==
    LET shifted == IF targets = <<>> THEN <<>> ELSE Tail(targets)
    IN  IF ~CriterionDefined(logits, shifted)
        THEN Raised(op, self, "ShapeMismatch", calls)
        ELSE LET loss == Criterion(logits, shifted)
                 y_hats == Predictions(logits)
                 wer == wer_metric(shifted, y_hats)
                 cer == cer_metric(shifted, y_hats)
                 progress_bar_dict ==
                     [k \in {PerplexityKey(stage), "wer", "cer"} |->
                         IF k = "wer" THEN wer ELSE IF k = "cer" THEN cer ELSE loss]
             IN  [self |-> self,
                  ret |-> [op |-> op, kind |-> "return",
                           value |-> [loss |-> loss,
                                      progress_bar |-> progress_bar_dict,
                                      log |-> progress_bar_dict]],
                  lmcall |-> calls,
                  hook |-> <<[stage |-> stage, wer |-> wer, cer |-> cer,
                              loss |-> loss]>>]

\* collect_outputs(stage, logits, targets), called by step `op`
collect_outputs(op, self, stage, logits, targets, calls) ==
    LET shifted == IF targets = <<>> THEN <<>> ELSE Tail(targets)
    IN  IF ~CriterionDefined(logits, shifted)
        THEN Raised(op, self, "ShapeMismatch", calls)
        ELSE LET loss == Criterion(logits, shifted)
                 y_hats == Predictions(logits)
                 wer == wer_metric(targets, y_hats)
                 cer == cer_metric(targets, y_hats)
                 progress_bar_dict ==
                     [k \in {PerplexityKey(stage), "wer", "cer"} |->
                         IF k = "wer" THEN wer ELSE IF k = "cer" THEN cer ELSE loss]
             IN  [self |-> self,
                  ret |-> [op |-> op, kind |-> "return",
                           value |-> [loss |-> loss,
                                      progress_bar |-> progress_bar_dict,
                                      log |-> progress_bar_dict]],
                  lmcall |-> calls,
                  hook |-> <<[stage |-> stage, wer |-> wer, cer |-> cer,
                              loss |-> loss]>>]

\* forward(inputs)
forward(self, inputs, coin) ==
    IF self.lm = 0
    THEN Raised("forward", self, "AttributeError", <<>>)
    ELSE LET c == LmCall(self, inputs, 0, coin)
         IN  IF c.out.kind = "raise"
             THEN Raised("forward", self, c.out.error, <<c>>)
             ELSE [self |-> self,
                   ret |-> [op |-> "forward", kind |-> "return",
                            value |-> [predictions |-> Predictions(c.out.logits),
                                       logits |-> c.out.logits]],
                   lmcall |-> <<c>>, hook |-> <<>>]

\* training_step always decoding with full teacher forcing
training_step_always_forced(self, b, batch_idx, coin) ==
    IF self.lm = 0
    THEN Raised("training_step", self, "AttributeError", <<>>)
    ELSE LET c == LmCall(self, b.inputs, RatioDen, coin)
         IN  IF c.out.kind = "raise"
             THEN Raised("training_step", self, c.out.error, <<c>>)
             ELSE collect_outputs("training_step", self, "train", c.out.logits,
                                  b.targets, <<c>>)

\* training_step handing the batch's targets to the decoder
training_step_targets_to_decoder(self, b, batch_idx, coin) ==
    IF self.lm = 0
    THEN Raised("training_step", self, "AttributeError", <<>>)
    ELSE LET c == LmCall(self, b.targets, self.teacher_forcing_ratio, coin)
         IN  IF c.out.kind = "raise"
             THEN Raised("training_step", self, c.out.error, <<c>>)
             ELSE collect_outputs("training_step", self, "train", c.out.logits,
                                  b.targets, <<c>>)

\* training_step(batch, batch_idx)
training_step(self, b, batch_idx, coin) ==
    IF self.lm = 0
    THEN Raised("training_step", self, "AttributeError", <<>>)
    ELSE LET c == LmCall(self, b.inputs, self.teacher_forcing_ratio, coin)
         IN  IF c.out.kind = "raise"
             THEN Raised("training_step", self, c.out.error, <<c>>)
             ELSE collect_outputs("training_step", self, "train", c.out.logits,
                                  b.targets, <<c>>)

\* validation_step writing the ratio it decodes with back into the wrapper
validation_step_overwrites_ratio(self, b, batch_idx, coin) ==
    IF self.lm = 0
    THEN Raised("validation_step", self, "AttributeError", <<>>)
    ELSE LET self0 == [self EXCEPT !.teacher_forcing_ratio = 0]
             c == LmCall(self0, b.inputs, self0.teacher_forcing_ratio, coin)
         IN  IF c.out.kind = "raise"
             THEN Raised("validation_step", self0, c.out.error, <<c>>)
             ELSE collect_outputs("validation_step", self0, "valid", c.out.logits,
                                  b.targets, <<c>>)

\* test_step decoding with the stored training ratio instead of 0
test_step_stored_ratio(self, b, batch_idx, coin) ==
    IF self.lm = 0
    THEN Raised("test_step", self, "AttributeError", <<>>)
    ELSE LET c == LmCall(self, b.inputs, self.teacher_forcing_ratio, coin)
         IN  IF c.out.kind = "raise"
             THEN Raised("test_step", self, c.out.error, <<c>>)
             ELSE collect_outputs("test_step", self, "test", c.out.logits,
                                  b.targets, <<c>>)

\* validation_step decoding with the stored training ratio instead of 0
validation_step_stored_ratio(self, b, batch_idx, coin) ==
    IF self.lm = 0
    THEN Raised("validation_step", self, "AttributeError", <<>>)
    ELSE LET c == LmCall(self, b.inputs, self.teacher_forcing_ratio, coin)
         IN  IF c.out.kind = "raise"
             THEN Raised("validation_step", self, c.out.error, <<c>>)
             ELSE collect_outputs("validation_step", self, "valid", c.out.logits,
                                  b.targets, <<c>>)

\* validation_step(batch, batch_idx)
validation_step(self, b, batch_idx, coin) ==
    IF self.lm = 0
    THEN Raised("validation_step", self, "AttributeError", <<>>)
    ELSE LET c == LmCall(self, b.inputs, 0, coin)
         IN  IF c.out.kind = "raise"
             THEN Raised("validation_step", self, c.out.error, <<c>>)
             ELSE collect_outputs("validation_step", self, "valid", c.out.logits,
                                  b.targets, <<c>>)

\* test_step reporting under the validation stage tag
test_step_valid_tag(self, b, batch_idx, coin) ==
    IF self.lm = 0
    THEN Raised("test_step", self, "AttributeError", <<>>)
    ELSE LET c == LmCall(self, b.inputs, 0, coin)
         IN  IF c.out.kind = "raise"
             THEN Raised("test_step", self, c.out.error, <<c>>)
             ELSE collect_outputs("test_step", self, "valid", c.out.logits,
                                  b.targets, <<c>>)

\* test_step(batch, batch_idx)
test_step(self, b, batch_idx, coin) ==
    IF self.lm = 0
    THEN Raised("test_step", self, "AttributeError", <<>>)
    ELSE LET c == LmCall(self, b.inputs, 0, coin)
         IN  IF c.out.kind = "raise"
             THEN Raised("test_step", self, c.out.error, <<c>>)
             ELSE collect_outputs("test_step", self, "test", c.out.logits,
                                  b.targets, <<c>>)

----------------------------------------------------------------------------
(* The state machine: the driver's calls *)

Coins == 0 .. (RatioDen - 1)

NoCall == [op |-> "none", kind |-> "none"]

StageOf(op) ==
    CASE op = "training_step" -> "train"
      [] op = "validation_step" -> "valid"
      [] op = "test_step" -> "test"

ConfigSpace ==
    {[model |-> [teacher_forcing_ratio |-> r, max_length |-> max_length]] :
        r \in Ratios}

Init ==
    /\ configs \in ConfigSpace
    /\ LET self == NewModel(configs)
       IN  /\ teacher_forcing_ratio = self.teacher_forcing_ratio
           /\ lm = self.lm
           /\ params = self.params
    /\ built = FALSE
    /\ batch \in Batches
    /\ ret = NoCall
    /\ lmcall = <<>>
    /\ hook = <<>>
    /\ called = <<>>
    /\ logged = <<>>

\* what a handler's effect does to the state
Apply(e) ==
    /\ configs' = e.self.configs
    /\ teacher_forcing_ratio' = e.self.teacher_forcing_ratio
    /\ lm' = e.self.lm
    /\ params' = e.self.params
    /\ ret' = e.ret
    /\ lmcall' = e.lmcall
    /\ hook' = e.hook
    /\ logged' = logged \o [i \in 1 .. Len(e.hook) |-> e.hook[i].stage]
    /\ called' = IF e.ret.kind = "return" /\ e.ret.op # "forward"
                 THEN Append(called, StageOf(e.ret.op))
                 ELSE called
    /\ UNCHANGED <<batch, built>>

BuildModel ==
    /\ lm < MaxBuilds
    /\ LET self == build_model(Self)
       IN  /\ configs' = self.configs
           /\ teacher_forcing_ratio' = self.teacher_forcing_ratio
           /\ lm' = self.lm
           /\ params' = self.params
    /\ built' = TRUE
    /\ ret' = NoCall
    /\ lmcall' = <<>>
    /\ hook' = <<>>
    /\ UNCHANGED <<batch, called, logged>>

Forward ==
    \E coin \in Coins : \E e \in {forward(Self, batch.inputs, coin)} : Apply(e)

TrainingStep ==
    /\ Len(called) < MaxCalls
    /\ \E coin \in Coins :
           \E e \in {training_step(Self, batch, Len(called), coin)} : Apply(e)

ValidationStep ==
    /\ Len(called) < MaxCalls
    /\ \E coin \in Coins :
           \E e \in {validation_step(Self, batch, Len(called), coin)} : Apply(e)

TestStep ==
    /\ Len(called) < MaxCalls
    /\ \E coin \in Coins :
           \E e \in {test_step(Self, batch, Len(called), coin)} : Apply(e)

\* the driver's gradient update after a training step that returned a loss
OptimizerStep ==
    /\ ret.op = "training_step"
    /\ ret.kind = "return"
    /\ params' = (params + 1) % NumParams
    /\ ret' = NoCall
    /\ lmcall' = <<>>
    /\ hook' = <<>>
    /\ UNCHANGED <<configs, teacher_forcing_ratio, lm, built, batch, called, logged>>

\* the driver drops the last result and fetches the next batch
NextBatch ==
    /\ ret # NoCall
    /\ batch' \in Batches
    /\ ret' = NoCall
    /\ lmcall' = <<>>
    /\ hook' = <<>>
    /\ UNCHANGED <<configs, teacher_forcing_ratio, lm, built, params, called, logged>>

Next ==
    \/ BuildModel
    \/ Forward
    \/ TrainingStep
    \/ ValidationStep
    \/ TestStep
    \/ OptimizerStep
    \/ NextBatch

Spec == Init /\ [][Next]_vars

----------------------------------------------------------------------------
(* Properties *)

StepOps == {"training_step", "validation_step", "test_step"}
CallOps == StepOps \cup {"forward"}

\* the last call was a step that returned a Result record
StepReturned == ret.op \in StepOps /\ ret.kind = "return"

\* the last call reached the decoder and the decoder produced logits
Decoded == lmcall # <<>> /\ lmcall[1].out.kind = "ok"

\* C1: whenever validation_step, test_step or forward reaches the decoder, it
\* is invoked (once) with ratio 0 whatever ratio is configured; whenever
\* training_step reaches it, it is invoked with exactly the configured ratio.
C1_DecoderRatio ==
    ret.op \in CallOps =>
        /\ Len(lmcall) = (IF lm = 0 THEN 0 ELSE 1)
        /\ \A i \in 1 .. Len(lmcall) :
              lmcall[i].ratio = IF ret.op = "training_step"
                                THEN configs.model.teacher_forcing_ratio
                                ELSE 0

\* a validation step after a training step, under a configured ratio of 1
C1_Witness ==
    /\ called = <<"train", "valid">>
    /\ ret.op = "validation_step"
    /\ configs.model.teacher_forcing_ratio = RatioDen
    /\ lmcall[1].ratio = 0

\* C2: while build_model was never called, every call of forward or of a step
\* raises the uninitialized-component error, returns nothing, invokes neither
\* the decoder nor the logging hook and leaves the wrapper as it was; once
\* build_model has been called, no call raises that error.
C2_Uninitialized ==
    [][ret'.op \in CallOps =>
          /\ ~built =>
                /\ ret'.kind = "raise"
                /\ ret'.error = "AttributeError"
                /\ hook' = <<>>
                /\ lmcall' = <<>>
                /\ UNCHANGED <<configs, teacher_forcing_ratio, lm, params,
                               called, logged>>
          /\ built => ~(ret'.kind = "raise" /\ ret'.error = "AttributeError")]_vars

\* a validation step on a wrapper that was never built
C2_Witness ==
    /\ ~built
    /\ ret.op = "validation_step"
    /\ ret.kind = "raise"
    /\ ret.error = "AttributeError"

\* C3: every step that returns has invoked the logging hook exactly once, with
\* its own stage tag and the wer, cer and loss it returns; forward and a step
\* that raises never invoke it; so the logged stage tags are, in order, the
\* stages of the steps that returned.
C3_LoggedStages ==
    /\ logged = called
    /\ StepReturned =>
          /\ Len(hook) = 1
          /\ hook[1].stage = StageOf(ret.op)
          /\ hook[1].loss = ret.value.loss
          /\ hook[1].wer = ret.value.log["wer"]
          /\ hook[1].cer = ret.value.log["cer"]
    /\ ~StepReturned => hook = <<>>

\* three steps of three kinds, logged in the order they were called
C3_Witness ==
    /\ logged = <<"valid", "train", "test">>
    /\ ret.op = "test_step"
    /\ Len(hook) = 1

\* the targets row with its leading (start-of-sequence) column replaced by k
WithColumn0(targets, k) == [targets EXCEPT ![1] = k]

\* C4: the loss a step returns is the criterion applied to the logits of that
\* step's decoder call and targets[:, 1:]; replacing the leading column of
\* the targets by any other id gives the same loss for the same logits.
C4_ShiftedLoss ==
    StepReturned =>
        /\ ret.value.loss = Criterion(lmcall[1].out.logits, Tail(batch.targets))
        /\ \A k \in Tokens :
              LET again == collect_outputs(ret.op, Self, StageOf(ret.op),
                                           lmcall[1].out.logits,
                                           WithColumn0(batch.targets, k), lmcall)
              IN  /\ again.ret.kind = "return"
                  /\ again.ret.value.loss = ret.value.loss

\* a training step with a nonzero loss on targets that do not start with sos
C4_Witness ==
    /\ StepReturned
    /\ ret.op = "training_step"
    /\ batch.targets[1] # sos_id
    /\ ret.value.loss > 0

\* C5: a call of validation_step, test_step or forward leaves the decoder
\* parameters, the decoder instance, the configs and the stored ratio as they
\* were, so a training step issued after any of them still decodes with the
\* configured ratio.
C5_EvalFrame ==
    [][/\ ret'.op \in {"validation_step", "test_step", "forward"} =>
              UNCHANGED <<params, lm, configs, teacher_forcing_ratio>>
       /\ (ret'.op = "training_step" /\ lmcall' # <<>>) =>
              lmcall'[1].ratio = configs.model.teacher_forcing_ratio]_vars

\* a fully forced training step issued after a validation and a test step
C5_Witness ==
    /\ called = <<"valid", "test", "train">>
    /\ teacher_forcing_ratio = RatioDen
    /\ Decoded
    /\ lmcall[1].ratio = RatioDen
    /\ lmcall[1].out.forced

\* C6: after a validation or test step has returned, calling validation_step
\* or test_step on the same batch (parameters unchanged) returns the same
\* loss, whatever the decoder's random draw, the configured ratio and the
\* calls made before.
C6_EvalLossOfBatch ==
    (ret.op \in {"validation_step", "test_step"} /\ ret.kind = "return") =>
        \A coin \in Coins :
            LET v == validation_step(Self, batch, Len(called), coin).ret
                t == test_step(Self, batch, Len(called), coin).ret
            IN  /\ v.kind = "return"
                /\ t.kind = "return"
                /\ v.value.loss = ret.value.loss
                /\ t.value.loss = ret.value.loss

\* a test step after a validation step under a configured ratio of 1, on a
\* batch where forcing would feed another token than greedy decoding does
C6_Witness ==
    /\ called = <<"valid", "test">>
    /\ ret.op = "test_step"
    /\ ret.kind = "return"
    /\ teacher_forcing_ratio = RatioDen
    /\ batch.inputs[max_length] # lmcall[1].out.fed[max_length]

\* C7: with a configured ratio of 0, the logits training_step obtains from the
\* decoder and hands to collect_outputs are the logits forward returns for
\* the same inputs and parameters, and so are the argmax predictions.
C7_TrainEqualsForward ==
    (ret.op = "training_step" /\ configs.model.teacher_forcing_ratio = 0 /\ Decoded) =>
        \A coin \in Coins :
            LET f == forward(Self, batch.inputs, coin).ret
            IN  /\ f.kind = "return"
                /\ f.value.logits = lmcall[1].out.logits
                /\ f.value.predictions = Predictions(lmcall[1].out.logits)

\* a training step at configured ratio 0 on inputs whose second id differs
\* from the token greedy decoding fed
C7_Witness ==
    /\ StepReturned
    /\ ret.op = "training_step"
    /\ configs.model.teacher_forcing_ratio = 0
    /\ batch.inputs[max_length] # lmcall[1].out.fed[max_length]

\* C8: a step either raises, logging and returning nothing, or returns a
\* Result record that has a loss, a number; and once build_model has been
\* called every step on a batch of the declared shape returns, whatever
\* steps returned before it and whatever gradient updates were applied.
C8_StepOutcome ==
    ret.op \in StepOps =>
        /\ ret.kind \in {"return", "raise"}
        /\ ret.kind = "raise" => hook = <<>>
        /\ ret.kind = "return" =>
              /\ "loss" \in DOMAIN ret.value
              /\ ret.value.loss \in Nat
        /\ (built /\ DeclaredShape(batch)) => ret.kind = "return"

\* the third of three training steps, after a gradient update
C8_Witness ==
    /\ called = <<"train", "train", "train">>
    /\ StepReturned
    /\ params = 1
    /\ ret.value.loss \in Nat

\* C9 as stated: in a forced training step the tokens fed to the decoder are
\* the batch's targets at the same positions, otherwise they are the previous
\* argmax; validation_step, test_step and forward never decode forced.
C9_Original ==
    Decoded =>
        LET c == lmcall[1]
        IN  /\ \A t \in 2 .. max_length :
                  c.out.fed[t] = IF c.out.forced THEN batch.targets[t]
                                 ELSE ArgMax(c.out.logits[t - 1])
            /\ ret.op # "training_step" => ~c.out.forced

\* C9 amended: the only sequence a step hands to the decoder is the batch's
\* inputs; in a forced training step the tokens fed after the first are the
\* inputs at the same positions, otherwise they are the previous argmax; at
\* ratio 0 (validation_step, test_step, forward) decoding is never forced.
C9_TeacherFromInputs ==
    Decoded =>
        LET c == lmcall[1]
        IN  /\ c.teacher = batch.inputs
            /\ c.out.fed[1] = sos_id
            /\ \A t \in 2 .. max_length :
                  c.out.fed[t] = IF c.out.forced THEN batch.inputs[t]
                                 ELSE ArgMax(c.out.logits[t - 1])
            /\ c.ratio = 0 => ~c.out.forced
            /\ ret.op # "training_step" => ~c.out.forced

\* a forced training step on a batch whose inputs and targets differ at the
\* forced position
C9_Witness ==
    /\ StepReturned
    /\ ret.op = "training_step"
    /\ lmcall[1].out.forced
    /\ batch.inputs[max_length] # batch.targets[max_length]

\* C10: the Result record of a step of stage s has exactly the keys loss,
\* progress_bar and log; progress_bar and log are the same mapping with
\* exactly the entries s_perplexity, wer and cer; the perplexity entry is the
\* loss, which is the loss given to the logging hook; wer and cer are the
\* metrics of the full targets against the argmax of the logits, and are the
\* values given to the logging hook.
C10_ResultRecord ==
    StepReturned =>
        LET v == ret.value
            s == StageOf(ret.op)
            y == Predictions(lmcall[1].out.logits)
        IN  /\ DOMAIN v = {"loss", "progress_bar", "log"}
            /\ v.progress_bar = v.log
            /\ DOMAIN v.log = {PerplexityKey(s), "wer", "cer"}
            /\ v.log[PerplexityKey(s)] = v.loss
            /\ v.loss = Criterion(lmcall[1].out.logits, Tail(batch.targets))
            /\ v.log["wer"] = wer_metric(batch.targets, y)
            /\ v.log["cer"] = cer_metric(batch.targets, y)
            /\ hook = <<[stage |-> s, wer |-> v.log["wer"], cer |-> v.log["cer"],
                         loss |-> v.loss]>>

\* a validation step whose record carries nonzero, distinct error rates
C10_Witness ==
    /\ StepReturned
    /\ ret.op = "validation_step"
    /\ ret.value.log["wer"] > 0
    /\ ret.value.log["cer"] # ret.value.log["wer"]

====
